---------------------------- MODULE Spec2Model ----------------------------
(***************************************************************************)
(* A model of coldb (csruiliu/coldb): the batch queue of                    *)
(* src/src/db_batch_queue.c, the command compiler of src/src/parse.c and    *)
(* the dispatcher and session loop of src/src/server.c.                     *)
(*                                                                          *)
(* C strings are sequences of one-character strings.  Pointers are          *)
(* integers: NULL is the null pointer, WILD an indeterminate (never         *)
(* initialised) non-null pointer, and the positive integers are the         *)
(* addresses of the objects the program has allocated.                      *)
(***************************************************************************)
EXTENDS Integers, Sequences, FiniteSets, TLC

(***************************************************************************)
(* Bounds of the model.                                                     *)
(***************************************************************************)
MaxNodes == 2      \* Select operators (and so real nodes) created in one run
MaxQueues == 2     \* batchQueue objects allocated in one run
MaxCmds == 3       \* commands received on the connection in one run

NULL == 0
WILD == -1

\* sizeof(query->operator_fields.select_operator.handle): the handle is a
\* char*, so this is the size of a pointer, not the length of the string.
HandlePtrSize == 8

\* The Select operators the model enqueues: <<range_low, range_high>> pairs
\* and result handles (one short, one of nine characters).
SelectRanges == { <<3, 10>>, <<7, 20>>, <<10, 20>> }
RangeLows == { r[1] : r \in SelectRanges }
RangeHighs == { r[2] : r \in SelectRanges }
Handles ==
  { <<"h">>,
    <<"r", "e", "s", "u", "l", "t", "_", "0", "1">> }

VARIABLES
  bq,        \* the global live queue pointer (db_batch_queue.c:10)
  bqr,       \* the global refine queue pointer (db_batch_queue.c:13)
  queues,    \* the allocated batchQueue objects: id -> [head, tail, length, freed]
  heap,      \* the allocated bqNode objects: id -> [query, next, share_query_handle]
  ops,       \* the allocated Select DbOperators: id -> [live, handle, pre_range, post_range]
  drained,   \* what drain has handed to the scan executor, in order
  bqStatus,  \* "ok", or "crashed" once the process has faulted
  lastRet,   \* the return value of the last create_batch_queue / add_batch_queue call
  lastCall,  \* history: "show_batch_query" when that was the last queue call, else "other"
  pc,        \* the enqueuing worker's position inside add_batch_queue
  tq,        \* the value of bq the enqueuing worker holds in a register
  tn,        \* the node the enqueuing worker is adding
  tafter,    \* history: the worker linked tn after the coalescing pass captured the queue
  srv,       \* the session: "running", "closed_by_client", "closed_by_server", "crashed"
  catalog,   \* the catalog stores: [state, dbs, tbls, cols]
  current_db,\* the global current_db: a position in catalog.dbs, or NULL
  ncmds,     \* the number of commands received so far
  log        \* history: the entries of the last two commands received, in order

bqVars == <<bq, bqr, queues, heap, ops, drained, bqStatus, lastRet, lastCall>>
thVars == <<pc, tq, tn, tafter>>
ssVars == <<srv, catalog, current_db, ncmds, log>>

Range(s) == { s[i] : i \in DOMAIN s }

NewId(f) == Cardinality(DOMAIN f) + 1

RealNodes == { n \in DOMAIN heap : heap[n].query # WILD }

(***************************************************************************)
(* db_batch_queue.c                                                         *)
(***************************************************************************)

\* strcpy(dst, src) into a buffer of cap bytes.  When src and its terminator
\* fit, dst holds src.  When they do not, the copy runs past the allocation:
\* what dst reads back as afterwards depends on what the heap does with the
\* bytes beyond the buffer (left alone, or overwritten by a neighbour).
strcpy(cap, src) ==
  IF Len(src) + 1 <= cap
    THEN {src}
    ELSE {src, SubSeq(src, 1, cap)}

\* create_node: the node keeps the POINTER to the operator and a copy of the
\* handle made by strcpy into malloc(sizeof(handle) + 1).
create_node(H, o, copy) ==
  H @@ (NewId(H) :> [query |-> o, next |-> NULL, share_query_handle |-> copy])

\* line 52: bq->tail->next = node
AddLinkTail(Q, H, q, n) == [H EXCEPT ![Q[q].tail].next = n]
\* line 53: bq->tail = node
AddSetTail(Q, q, n) == [Q EXCEPT ![q].tail = n]
\* line 54: bq->length++
AddIncLength(Q, q) == [Q EXCEPT ![q].length = @ + 1]

\* a queue pointer the program may dereference
ValidQueue(q) == q \in DOMAIN queues /\ ~queues[q].freed

\* create_batch_queue: bq = malloc; sentinel = malloc; head = tail = sentinel;
\* length = 0.  The sentinel's next, query and share_query_handle are never
\* assigned: next is whatever malloc returned.
create_batch_queue(allocQ, allocN) ==
  /\ bqStatus = "ok"
  /\ bq = NULL
  /\ Cardinality(DOMAIN queues) < MaxQueues
  /\ IF ~allocQ
       THEN /\ bq' = NULL
            /\ lastRet' = 1
            /\ UNCHANGED <<queues, heap>>
       ELSE LET q == NewId(queues) IN
            IF ~allocN
              THEN /\ bq' = q
                   /\ queues' = queues @@
                        (q :> [head |-> WILD, tail |-> WILD, length |-> 0, freed |-> TRUE])
                   /\ lastRet' = 1
                   /\ UNCHANGED heap
              ELSE \E nx \in {NULL, WILD} :
                   /\ bq' = q
                   /\ heap' = heap @@
                        (NewId(heap) :> [query |-> WILD, next |-> nx,
                                         share_query_handle |-> <<>>])
                   /\ queues' = queues @@
                        (q :> [head |-> NewId(heap), tail |-> NewId(heap),
                               length |-> 0, freed |-> FALSE])
                   /\ lastRet' = 0
  /\ lastCall' = "other"
  /\ UNCHANGED <<bqr, ops, drained, bqStatus>>
  /\ UNCHANGED thVars

\* add_batch_queue answering 0 without its test of bq and node
add_batch_queue_unchecked(H, node) ==
  IF bq = NULL \/ node = NULL
    THEN /\ lastRet' = 0
         /\ heap' = H
         /\ UNCHANGED <<queues, bqStatus>>
    ELSE IF ~ValidQueue(bq)
      THEN /\ bqStatus' = "crashed"
           /\ heap' = H
           /\ UNCHANGED <<queues, lastRet>>
      ELSE /\ heap' = AddLinkTail(queues, H, bq, node)
           /\ queues' = AddIncLength(AddSetTail(queues, bq, node), bq)
           /\ lastRet' = 0
           /\ UNCHANGED bqStatus

\* add_batch_queue(node) run to completion by one caller, on the heap H.
add_batch_queue(H, node) ==
  IF bq = NULL \/ node = NULL
    THEN /\ lastRet' = 1
         /\ heap' = H
         /\ UNCHANGED <<queues, bqStatus>>
    ELSE IF ~ValidQueue(bq)
      THEN \* bq dangles: the stores go through a freed, never initialised queue
           /\ bqStatus' = "crashed"
           /\ heap' = H
           /\ UNCHANGED <<queues, lastRet>>
      ELSE /\ heap' = AddLinkTail(queues, H, bq, node)
           /\ queues' = AddIncLength(AddSetTail(queues, bq, node), bq)
           /\ lastRet' = 0
           /\ UNCHANGED bqStatus

\* A Select operator (pre_range l, post_range h, handle hd) is wrapped by
\* create_node and handed to add_batch_queue.
Enqueue(l, h, hd, allocOk) ==
  /\ bqStatus = "ok"
  /\ Cardinality(DOMAIN ops) < MaxNodes
  /\ LET o == NewId(ops) IN
     /\ ops' = ops @@ (o :> [live |-> TRUE, handle |-> hd,
                             pre_range |-> l, post_range |-> h])
     /\ IF allocOk
          THEN \E copy \in strcpy(HandlePtrSize + 1, hd) :
               add_batch_queue(create_node(heap, o, copy), NewId(heap))
          ELSE add_batch_queue(heap, NULL)
  /\ lastCall' = "other"
  /\ UNCHANGED <<bq, bqr, drained>>
  /\ UNCHANGED thVars

\* free_query on a Select operator: neither branch of free_query applies, the
\* operator itself is freed.  A node that wraps it keeps its pointer.
free_query_select(o) ==
  /\ bqStatus = "ok"
  /\ o \in DOMAIN ops
  /\ ops[o].live
  /\ ops' = [ops EXCEPT ![o].live = FALSE]
  /\ lastCall' = "other"
  /\ UNCHANGED <<bq, bqr, queues, heap, drained, bqStatus, lastRet>>
  /\ UNCHANGED thVars

\* The nodes met by following next from n until NULL; an indeterminate
\* pointer ends the walk as WILD (following it is undefined).
RECURSIVE Walk(_, _)
Walk(H, n) ==
  IF n = NULL THEN <<>>
  ELSE IF n \notin DOMAIN H THEN <<WILD>>
  ELSE <<n>> \o Walk(H, H[n].next)

\* is_bq_empty: 0 when bq is NULL or head == tail (the queue is empty), else 1.
\* The set holds the values the call can return; on a freed queue the
\* comparison reads indeterminate fields.
is_bq_empty ==
  IF bq = NULL THEN {0}
  ELSE IF ~ValidQueue(bq) THEN {0, 1}
  ELSE IF queues[bq].head = queues[bq].tail THEN {0}
  ELSE {1}

\* What the fields of node n's operator read as: the operator's values while
\* it is live, indeterminate values once it has been freed.
ReadQuery(n) ==
  LET o == heap[n].query IN
  IF o \in DOMAIN ops /\ ops[o].live
    THEN { [pre_range |-> ops[o].pre_range, post_range |-> ops[o].post_range] }
    ELSE [pre_range : RangeLows, post_range : RangeHighs]

\* show_batch_query unlinking what it has printed: the queue is left empty
show_batch_query_consuming ==
  /\ bqStatus = "ok"
  /\ \E e \in is_bq_empty :
       IF e = 0
         THEN UNCHANGED <<bqStatus, queues>>
         ELSE IF ~ValidQueue(bq)
           THEN bqStatus' = "crashed" /\ UNCHANGED queues
         ELSE /\ queues' = [queues EXCEPT ![bq].tail = queues[bq].head, ![bq].length = 0]
              /\ UNCHANGED bqStatus
  /\ lastCall' = "show_batch_query"
  /\ UNCHANGED <<bq, bqr, heap, ops, drained, lastRet>>
  /\ UNCHANGED thVars

\* show_batch_query: returns at once on an empty queue, else walks from
\* head->next printing each node's operator fields.  It writes nothing; it
\* faults when the walk or a node's operator pointer leads outside the heap.
show_batch_query ==
  /\ bqStatus = "ok"
  /\ \E e \in is_bq_empty :
       IF e = 0
         THEN UNCHANGED bqStatus
         ELSE IF ~ValidQueue(bq)
           THEN bqStatus' = "crashed"
         ELSE LET w == Walk(heap, heap[queues[bq].head].next) IN
              IF WILD \in Range(w)
                THEN bqStatus' = "crashed"
                ELSE \E ok \in (IF \A i \in DOMAIN w : ops[heap[w[i]].query].live
                                  THEN {TRUE} ELSE {TRUE, FALSE}) :
                       bqStatus' = IF ok THEN "ok" ELSE "crashed"
  /\ lastCall' = "show_batch_query"
  /\ UNCHANGED <<bq, bqr, queues, heap, ops, drained, lastRet>>
  /\ UNCHANGED thVars

\* drain(q): hands all real nodes of q, in their current order, to the scan
\* executor and resets q to the empty state (head == tail == sentinel,
\* length 0).  Each node is handed over as the executor reads it: the range
\* through node->query, the handle from the node's own copy.
drain(q) ==
  /\ bqStatus = "ok"
  /\ q # NULL
  /\ ValidQueue(q)
  /\ LET w == IF queues[q].head = queues[q].tail
               THEN <<>>
               ELSE Walk(heap, heap[queues[q].head].next) IN
     IF WILD \in Range(w)
       THEN /\ bqStatus' = "crashed"
            /\ UNCHANGED <<queues, drained>>
       ELSE /\ \E f \in [DOMAIN w -> [pre_range : RangeLows, post_range : RangeHighs]] :
                 /\ \A i \in DOMAIN w : f[i] \in ReadQuery(w[i])
                 /\ drained' = drained \o
                      [i \in DOMAIN w |->
                        [node |-> w[i], pre_range |-> f[i].pre_range,
                         post_range |-> f[i].post_range,
                         handle |-> heap[w[i]].share_query_handle]]
            /\ queues' = [queues EXCEPT ![q].tail = queues[q].head, ![q].length = 0]
            /\ UNCHANGED bqStatus
  /\ lastCall' = "other"
  /\ UNCHANGED <<bq, bqr, heap, ops, lastRet>>
  /\ UNCHANGED thVars

DrainLive ==
  /\ Len(drained) < MaxNodes
  /\ drain(bq)

(***************************************************************************)
(* add_batch_queue statement by statement, as one worker runs it while a    *)
(* coalescing pass runs beside it.  Nothing in add_batch_queue orders its   *)
(* accesses to the global bq against the pass: each statement either loads  *)
(* bq again or uses the value an earlier statement left in a register.      *)
(***************************************************************************)

\* the worker has compiled a Select and wrapped it: create_node, then the call
WorkerBegin(l, h, hd) ==
  /\ bqStatus = "ok"
  /\ pc \in {"idle", "done"}
  /\ Cardinality(DOMAIN ops) < MaxNodes
  /\ \E copy \in strcpy(HandlePtrSize + 1, hd) :
       heap' = create_node(heap, NewId(ops), copy)
  /\ ops' = ops @@ (NewId(ops) :> [live |-> TRUE, handle |-> hd,
                                   pre_range |-> l, post_range |-> h])
  /\ tn' = NewId(heap)
  /\ tq' = NULL
  /\ tafter' = FALSE
  /\ pc' = "L48"
  /\ UNCHANGED <<bq, bqr, queues, drained, bqStatus, lastRet, lastCall>>

\* line 48: if (bq == NULL || node == NULL) return 1
WorkerL48 ==
  /\ bqStatus = "ok"
  /\ pc = "L48"
  /\ IF bq = NULL \/ tn = NULL
       THEN /\ lastRet' = 1
            /\ pc' = "idle"
            /\ UNCHANGED tq
       ELSE /\ tq' = bq
            /\ pc' = "L52"
            /\ UNCHANGED lastRet
  /\ UNCHANGED <<bq, bqr, queues, heap, ops, drained, bqStatus, lastCall, tn, tafter>>

\* line 52: bq->tail->next = node
WorkerL52(reload) ==
  /\ bqStatus = "ok"
  /\ pc = "L52"
  /\ LET q == IF reload THEN bq ELSE tq IN
     /\ heap' = AddLinkTail(queues, heap, q, tn)
     /\ tafter' = (q = bqr)
     /\ tq' = q
  /\ pc' = "L53"
  /\ UNCHANGED <<bq, bqr, queues, ops, drained, bqStatus, lastRet, lastCall, tn>>

\* line 53: bq->tail = node
WorkerL53(reload) ==
  /\ bqStatus = "ok"
  /\ pc = "L53"
  /\ LET q == IF reload THEN bq ELSE tq IN
     /\ queues' = AddSetTail(queues, q, tn)
     /\ tq' = q
  /\ pc' = "L54"
  /\ UNCHANGED <<bq, bqr, heap, ops, drained, bqStatus, lastRet, lastCall, tn, tafter>>

\* lines 54-55: bq->length++; return 0
WorkerL54(reload) ==
  /\ bqStatus = "ok"
  /\ pc = "L54"
  /\ LET q == IF reload THEN bq ELSE tq IN
     /\ queues' = AddIncLength(queues, q)
     /\ tq' = q
  /\ lastRet' = 0
  /\ lastCall' = "other"
  /\ pc' = "done"
  /\ UNCHANGED <<bq, bqr, heap, ops, drained, bqStatus, tn, tafter>>

\* The swap of a coalescing pass, in one step: the pass captures the live
\* queue in bqr and bq becomes a freshly created empty queue.
Swap ==
  /\ bqStatus = "ok"
  /\ bq # NULL
  /\ ValidQueue(bq)
  /\ IF bqr = NULL THEN TRUE ELSE queues[bqr].head = queues[bqr].tail
  /\ Cardinality(DOMAIN queues) < MaxQueues
  /\ \E nx \in {NULL, WILD} :
       /\ heap' = heap @@
            (NewId(heap) :> [query |-> WILD, next |-> nx, share_query_handle |-> <<>>])
       /\ queues' = queues @@
            (NewId(queues) :> [head |-> NewId(heap), tail |-> NewId(heap),
                               length |-> 0, freed |-> FALSE])
  /\ bqr' = bq
  /\ bq' = NewId(queues)
  /\ UNCHANGED <<ops, drained, bqStatus, lastRet, lastCall>>
  /\ UNCHANGED thVars

\* the pass drains the queue it detached
DrainRefine ==
  /\ bqr # NULL
  /\ queues[bqr].head # queues[bqr].tail
  /\ drain(bqr)

(***************************************************************************)
(* C string functions and utils_func.c                                      *)
(***************************************************************************)

\* strncmp(s, lit, Len(lit)) == 0: s begins with the literal
StartsWith(s, lit) ==
  /\ Len(s) >= Len(lit)
  /\ SubSeq(s, 1, Len(lit)) = lit

\* strchr(s, c): the position of the first c in s, 0 when there is none
strchr(s, c) ==
  IF \E i \in DOMAIN s : s[i] = c
    THEN CHOOSE i \in DOMAIN s : s[i] = c /\ \A j \in 1..(i - 1) : s[j] # c
    ELSE 0

\* A char* that may be NULL: [null |-> TRUE] or [null |-> FALSE, s |-> text].
NullStr == [null |-> TRUE, s |-> <<>>]
Str(t) == [null |-> FALSE, s |-> t]

\* strsep(&p, delim): the token up to the first delim (NULL when p is NULL)
\* and what p points to afterwards (NULL when no delim was found).
strsep(p, delim) ==
  IF p.null THEN [token |-> NullStr, rest |-> NullStr]
  ELSE LET i == strchr(p.s, delim) IN
       IF i = 0
         THEN [token |-> Str(p.s), rest |-> NullStr]
         ELSE [token |-> Str(SubSeq(p.s, 1, i - 1)),
               rest |-> Str(SubSeq(p.s, i + 1, Len(p.s)))]

isspace(c) == c \in {" ", "\t", "\n", "\r"}

\* trim_whitespace: deletes every character for which isspace holds
trim_whitespace(str) == SelectSeq(str, LAMBDA c : ~isspace(c))

\* trim_quote: deletes every double quote character
trim_quote(str) == SelectSeq(str, LAMBDA c : c # "\"")

\* parse.c calls trim_quotes, which utils_func.c does not define under that
\* name; it deletes every quote character, as trim_quote does.
trim_quotes(str) == trim_quote(str)

Digits == <<"0", "1", "2", "3", "4", "5", "6", "7", "8", "9">>
IsDigit(c) == c \in Range(Digits)
DigitVal(c) == (CHOOSE i \in DOMAIN Digits : Digits[i] = c) - 1

\* the value of the longest run of digits s begins with (0 for none)
RECURSIVE DigitRun(_, _)
DigitRun(s, acc) ==
  IF s = <<>> \/ ~IsDigit(Head(s)) THEN acc
  ELSE DigitRun(Tail(s), acc * 10 + DigitVal(Head(s)))

\* atoi: an optional sign, then digits up to the first non-digit
atoi(s) ==
  IF s # <<>> /\ Head(s) = "-" THEN 0 - DigitRun(Tail(s), 0)
  ELSE IF s # <<>> /\ Head(s) = "+" THEN DigitRun(Tail(s), 0)
  ELSE DigitRun(s, 0)

\* A size_t is 64 bits wide: four 16-bit limbs, most significant first.
\* The conversion of an int to size_t sign-extends, so a negative int
\* becomes 2^64 + n.
Limb == 65536
size_t(n) ==
  IF n >= 0
    THEN <<0, 0, n \div Limb, n % Limb>>
    ELSE LET k == (0 - n) - 1 IN
         <<Limb - 1, Limb - 1, (Limb - 1) - (k \div Limb), (Limb - 1) - (k % Limb)>>

\* column_cnt < 1 on a size_t: only 0 is less than 1
SizeLessThanOne(z) == z = <<0, 0, 0, 0>>

(***************************************************************************)
(* parse.c                                                                  *)
(***************************************************************************)
K_comment == <<"-", "-">>
K_create_db == <<"c", "r", "e", "a", "t", "e", "(", "d", "b", ",">>
K_create_tbl == <<"c", "r", "e", "a", "t", "e", "(", "t", "b", "l", ",">>
K_create_col == <<"c", "r", "e", "a", "t", "e", "(", "c", "o", "l", ",">>
K_load == <<"l", "o", "a", "d", "(">>
K_insert == <<"r", "e", "l", "a", "t", "i", "o", "n", "a", "l", "_", "i", "n", "s", "e", "r", "t">>
K_shutdown == <<"s", "h", "u", "t", "d", "o", "w", "n">>

ErrCreateCol ==
  "create column command is error, use command like [create(col,\"col_name\",full_tbl_name)]"
ErrCreateTbl ==
  "create table command is error, use command like [create(tbl,\"grades\",name,2)]"
ErrColumnNumber == "query unsupported, wrong column number"
ErrCreateDb ==
  "create database command is error, use command like [create(db,\"name\")]"
ErrLoad == "load data command is error, use command like [load(\"data_path\")]"
ErrCommand == "error command, please try again.\n"

\* A DbOperator: the type tag and the union of the operators' fields.
NoFields ==
  [err_info |-> "", db_name |-> <<>>, tbl_name |-> <<>>, col_name |-> <<>>,
   col_count |-> size_t(0), data_path |-> <<>>]
Dbo(type, fields) == [type |-> type] @@ fields @@ NoFields

NoOperator == Dbo("NONE", NoFields)

error_dbo(error_info) == Dbo("ERROR_CMD", [err_info |-> error_info])

\* s[Len(s)] when s is not empty.  On an empty token the code reads the byte
\* before it, which is the terminator strsep wrote over the delimiter.
LastChar(s) == IF s = <<>> THEN "\\0" ELSE s[Len(s)]
DropLast(s) == SubSeq(s, 1, Len(s) - 1)

parse_create_col(query_command) ==
  LET t1 == strsep(Str(query_command), ",")
      col_name == trim_quotes(t1.token.s)
      t2 == strsep(t1.rest, ",")
      full_tbl_name == t2.token
  IN IF full_tbl_name.null THEN error_dbo(ErrCreateCol)
     ELSE IF LastChar(full_tbl_name.s) # ")" THEN error_dbo(ErrCreateCol)
     ELSE LET tbl == DropLast(full_tbl_name.s) IN
          Dbo("CREATE_COL", [tbl_name |-> tbl, col_name |-> tbl \o <<".">> \o col_name])

parse_create_tbl(query_command) ==
  LET t1 == strsep(Str(query_command), ",")
      t2 == strsep(t1.rest, ",")
      t3 == strsep(t2.rest, ",")
      db_name == t2.token
      col_cnt == t3.token
  IN IF t1.token.null \/ db_name.null \/ col_cnt.null THEN error_dbo(ErrCreateTbl)
     ELSE IF LastChar(col_cnt.s) # ")" THEN error_dbo(ErrCreateTbl)
     ELSE LET tbl_name == trim_quotes(t1.token.s)
              column_cnt == size_t(atoi(DropLast(col_cnt.s)))
          IN IF SizeLessThanOne(column_cnt) THEN error_dbo(ErrColumnNumber)
             ELSE Dbo("CREATE_TBL",
                      [db_name |-> db_name.s,
                       tbl_name |-> db_name.s \o <<".">> \o tbl_name,
                       col_count |-> column_cnt])

parse_create_db(query_command) ==
  LET db_name == trim_quotes(query_command) IN
  IF Len(db_name) - 1 < 0 \/ LastChar(db_name) # ")" THEN error_dbo(ErrCreateDb)
  ELSE Dbo("CREATE_DB", [db_name |-> DropLast(db_name)])

parse_load(query_command) ==
  LET data_path == trim_quotes(query_command) IN
  IF Len(data_path) - 1 < 0 \/ LastChar(data_path) # ")" THEN error_dbo(ErrLoad)
  ELSE Dbo("LOAD", [data_path |-> DropLast(data_path)])

\* What parse_command hands back: kind "op" with a well-formed operator,
\* kind "null" for a NULL pointer, kind "indeterminate" for the value of a
\* function that ran off its end without a return statement (parse_insert,
\* whose body is commented out).  status is send_message->status, handle the
\* text before '=' (NULL when there is none), payload the receive buffer as
\* the session loop reads it afterwards.
Parsed(kind, op, status, handle, payload) ==
  [kind |-> kind, op |-> op, status |-> status, handle |-> handle, payload |-> payload]

parse_command(query_command) ==
  IF StartsWith(query_command, K_comment)
    THEN Parsed("null", NoOperator, "OK_DONE", NullStr, query_command)
  ELSE
    LET eq == strchr(query_command, "=")
        handle == IF eq # 0 THEN Str(SubSeq(query_command, 1, eq - 1)) ELSE NullStr
        rest == IF eq # 0 THEN SubSeq(query_command, eq + 1, Len(query_command))
                ELSE query_command
        cmd == trim_whitespace(rest)
        payload == IF eq # 0 THEN handle.s ELSE cmd
        After(k) == SubSeq(cmd, Len(k) + 1, Len(cmd))
        Op(o) == Parsed("op", o, "OK_WAIT_FOR_RESPONSE", handle, payload)
    IN IF StartsWith(cmd, K_create_db) THEN Op(parse_create_db(After(K_create_db)))
       ELSE IF StartsWith(cmd, K_create_tbl) THEN Op(parse_create_tbl(After(K_create_tbl)))
       ELSE IF StartsWith(cmd, K_create_col) THEN Op(parse_create_col(After(K_create_col)))
       ELSE IF StartsWith(cmd, K_load) THEN Op(parse_load(After(K_load)))
       ELSE IF StartsWith(cmd, K_insert)
         THEN Parsed("indeterminate", NoOperator, "OK_WAIT_FOR_RESPONSE",
                     handle, payload)
       ELSE IF StartsWith(cmd, K_shutdown) THEN Op(Dbo("SHUTDOWN", NoFields))
       ELSE Op(error_dbo(ErrCommand))

(***************************************************************************)
(* The catalog store behind db_manager.h (create_db, create_table,          *)
(* create_column, load_data_csv, persist_data_csv) and the store            *)
(* constructors and destructors server.c calls.  Only their declarations    *)
(* and calls are in the sources; they are modelled from the specification   *)
(* (sections 4.2 and 6).                                                    *)
(***************************************************************************)
EmptyCatalog == [state |-> "ready", dbs |-> <<>>, tbls |-> <<>>, cols |-> <<>>]

\* a < b on size_t values
SizeLess(a, b) ==
  \E i \in 1..4 : a[i] < b[i] /\ \A j \in 1..(i - 1) : a[j] = b[j]

\* createDatabase(name): fails when a database of that name exists.  The
\* result is the position of the new database, NULL on failure.
create_db(cat, db_name) ==
  IF db_name \in Range(cat.dbs)
    THEN [ret |-> NULL, cat |-> cat]
    ELSE [ret |-> Len(cat.dbs) + 1, cat |-> [cat EXCEPT !.dbs = Append(@, db_name)]]

\* createTable: NotFound when the database is absent, CatalogError on a
\* name collision.
create_table(cat, db_name, tbl_name, num_columns) ==
  IF db_name \notin Range(cat.dbs) \/ \E i \in DOMAIN cat.tbls : cat.tbls[i].name = tbl_name
    THEN [ret |-> NULL, cat |-> cat]
    ELSE [ret |-> Len(cat.tbls) + 1,
          cat |-> [cat EXCEPT !.tbls =
                     Append(@, [name |-> tbl_name, db |-> db_name,
                                col_count |-> num_columns])]]

\* createColumn: NotFound when the table is absent, CatalogError on a
\* duplicate column name or when the table's column slots are used up.
create_column(cat, tbl_name, col_name) ==
  LET tbl == { i \in DOMAIN cat.tbls : cat.tbls[i].name = tbl_name }
      used == Cardinality({ i \in DOMAIN cat.cols : cat.cols[i].tbl = tbl_name })
  IN IF \/ tbl = {}
        \/ \E i \in DOMAIN cat.cols : cat.cols[i].name = col_name
        \/ \E i \in tbl : ~SizeLess(size_t(used), cat.tbls[i].col_count)
       THEN [ret |-> NULL, cat |-> cat]
       ELSE [ret |-> Len(cat.cols) + 1,
             cat |-> [cat EXCEPT !.cols = Append(@, [name |-> col_name, tbl |-> tbl_name])]]

\* free_db_store, free_tbl_store, free_col_store: the stores are released
free_stores(cat) == [cat EXCEPT !.state = "torn_down"]

(***************************************************************************)
(* server.c                                                                 *)
(***************************************************************************)
RespCreateDbOk == "create database successfully.\n"
RespCreateDbFailed == "create database failed.\n"
RespCreateTblOk == "create table successfully.\n"
RespCreateTblFailed == "create table failed.\n"
RespCreateColOk == "create column successfully.\n"
RespCreateColFailed == "create column failed.\n"
RespLoadOk == "load data into database successfully.\n"
RespLoadFailed == "load data into database failed.\n"
RespShutdown == "persist all the data and shutdown the server.\n"
RespUnsupported == "unsupported command, try again.\n"

\* One way a call of execute_DbOperator can end: the string it returns, the
\* catalog and current_db it leaves, how many times it freed the operator,
\* the collaborator calls it made in order, whether it logged an error, and
\* whether the process faulted instead of returning.
Outcome(result, cat, cdb, frees, calls, logged) ==
  [result |-> result, cat |-> cat, current_db |-> cdb, frees |-> frees,
   calls |-> calls, logged |-> logged, fault |-> FALSE]

Fault(cat, cdb) ==
  [result |-> "", cat |-> cat, current_db |-> cdb, frees |-> 0,
   calls |-> <<>>, logged |-> FALSE, fault |-> TRUE]

\* A catalog call on stores that have been torn down reads freed memory: it
\* may fault, or run on what the memory still holds.
StaleAccess(cat, cdb) ==
  IF cat.state = "torn_down" THEN {Fault(cat, cdb)} ELSE {}

\* the ERROR_CMD branch answering as the final else branch does
exec_error_unsupported(query, cat, cdb) ==
  {Outcome(RespUnsupported, cat, cdb, 1, <<>>, FALSE)}

\* lines 44-47: the ERROR_CMD branch
exec_error(query, cat, cdb) ==
  {Outcome(ErrCommand, cat, cdb, 1, <<>>, FALSE)}

\* the CREATE_DB branch without the test of create_db's result
exec_create_db_unchecked(query, cat, cdb) ==
  LET r == create_db(cat, query.db_name) IN
  StaleAccess(cat, cdb) \cup
  {Outcome(RespCreateDbOk, r.cat, r.ret, 1, <<"create_db">>, FALSE)}

\* lines 48-57: the CREATE_DB branch
exec_create_db(query, cat, cdb) ==
  LET r == create_db(cat, query.db_name) IN
  StaleAccess(cat, cdb) \cup
  {Outcome(IF r.ret = NULL THEN RespCreateDbFailed ELSE RespCreateDbOk,
           r.cat, r.ret, 1, <<"create_db">>, FALSE)}

\* the CREATE_TBL branch without the test of create_table's result
exec_create_tbl_unchecked(query, cat, cdb) ==
  LET r == create_table(cat, query.db_name, query.tbl_name, query.col_count) IN
  StaleAccess(cat, cdb) \cup
  {Outcome(RespCreateTblOk, r.cat, cdb, 1, <<"create_table">>, FALSE)}

\* lines 58-69: the CREATE_TBL branch
exec_create_tbl(query, cat, cdb) ==
  LET r == create_table(cat, query.db_name, query.tbl_name, query.col_count) IN
  StaleAccess(cat, cdb) \cup
  {Outcome(IF r.ret = NULL THEN RespCreateTblFailed ELSE RespCreateTblOk,
           r.cat, cdb, 1, <<"create_table">>, FALSE)}

\* lines 70-80: the CREATE_COL branch
exec_create_col(query, cat, cdb) ==
  LET r == create_column(cat, query.tbl_name, query.col_name) IN
  StaleAccess(cat, cdb) \cup
  {Outcome(IF r.ret = NULL THEN RespCreateColFailed ELSE RespCreateColOk,
           r.cat, cdb, 1, <<"create_column">>, FALSE)}

\* lines 81-89: the LOAD branch; load_data_csv returns 0 or not
exec_load(query, cat, cdb) ==
  StaleAccess(cat, cdb) \cup
  { Outcome(IF ret # 0 THEN RespLoadFailed ELSE RespLoadOk,
            cat, cdb, 1, <<"load_data_csv">>, FALSE) : ret \in {0, 1} }

\* the SHUTDOWN branch returning early, stores untouched, when persistence fails
exec_shutdown_abort_on_failure(query, cat, cdb) ==
  StaleAccess(cat, cdb) \cup
  { IF ret # 0
      THEN Outcome(RespShutdown, cat, cdb, 0, <<"persist_data_csv">>, TRUE)
      ELSE Outcome(RespShutdown, free_stores(cat), cdb, 0,
                   <<"persist_data_csv", "free_db_store", "free_tbl_store", "free_col_store">>,
                   FALSE) : ret \in {0, 1} }

\* lines 90-98: the SHUTDOWN branch; persist_data_csv returns 0 or not, a
\* failure is logged, the stores are freed, the operator is not
exec_shutdown(query, cat, cdb) ==
  StaleAccess(cat, cdb) \cup
  { Outcome(RespShutdown, free_stores(cat), cdb, 0,
            <<"persist_data_csv", "free_db_store", "free_tbl_store", "free_col_store">>,
            ret # 0) : ret \in {0, 1} }

\* lines 99-102: any other type
exec_other(query, cat, cdb) ==
  {Outcome(RespUnsupported, cat, cdb, 1, <<>>, FALSE)}

\* execute_DbOperator on a well-formed operator: the set of its outcomes.
execute_DbOperator(query, cat, cdb) ==
  IF query.type = "ERROR_CMD" THEN exec_error(query, cat, cdb)
  ELSE IF query.type = "CREATE_DB" THEN exec_create_db(query, cat, cdb)
  ELSE IF query.type = "CREATE_TBL" THEN exec_create_tbl(query, cat, cdb)
  ELSE IF query.type = "CREATE_COL" THEN exec_create_col(query, cat, cdb)
  ELSE IF query.type = "LOAD" THEN exec_load(query, cat, cdb)
  ELSE IF query.type = "SHUTDOWN" THEN exec_shutdown(query, cat, cdb)
  ELSE exec_other(query, cat, cdb)

\* What the bytes behind a pointer that designates no operator can read as.
GarbageName == <<"?">>
GarbageOperators ==
  { Dbo(t, [db_name |-> GarbageName, tbl_name |-> GarbageName,
            col_name |-> GarbageName, data_path |-> GarbageName,
            col_count |-> size_t(1), err_info |-> "?"]) :
      t \in {"ERROR_CMD", "CREATE_DB", "CREATE_TBL", "CREATE_COL", "LOAD",
             "SHUTDOWN", "UNKNOWN"} }

\* execute_DbOperator(NULL): query->type reads through the null pointer and
\* the process faults.
execute_null(cat, cdb) == {Fault(cat, cdb)}

\* execute_DbOperator on an indeterminate pointer: reading query->type is
\* undefined.  The process faults, or the read yields some bytes and the
\* dispatch goes on with them.
execute_indeterminate(cat, cdb) ==
  {Fault(cat, cdb)} \cup
  UNION { execute_DbOperator(g, cat, cdb) : g \in GarbageOperators }

(***************************************************************************)
(* The command texts a client sends.                                        *)
(***************************************************************************)
DbNames == { <<"d", "b", "1">>, <<"d", "2">> }
ColumnCounts == {-1, 0, 2}

\* the decimal text of an int of at most two digits
DecStr(n) ==
  LET m == IF n < 0 THEN 0 - n ELSE n
      ds == IF m >= 10 THEN <<Digits[(m \div 10) + 1], Digits[(m % 10) + 1]>>
            ELSE <<Digits[m + 1]>>
  IN IF n < 0 THEN <<"-">> \o ds ELSE ds

Quoted(name) == <<"\"">> \o name \o <<"\"">>

Cmd(form, text, name, n) == [form |-> form, text |-> text, name |-> name, n |-> n]

CreateDbCmd(name) ==
  Cmd("create_db", K_create_db \o Quoted(name) \o <<")">>, name, 0)

CreateTblCmd(n) ==
  Cmd("create_tbl",
      K_create_tbl \o Quoted(<<"t">>) \o <<",">> \o <<"d", "b", "1">> \o <<",">> \o DecStr(n) \o <<")">>,
      <<"t">>, n)

Commands ==
  { CreateDbCmd(name) : name \in DbNames }
  \cup { CreateTblCmd(n) : n \in ColumnCounts }
  \cup { Cmd("create_tbl_nonnumeric", <<"c", "r", "e", "a", "t", "e", "(", "t", "b", "l", ",", "\"", "t", "\"", ",", "d", "b", "1", ",", "x", ")">>, <<"t">>, 0),
         Cmd("create_db_malformed", <<"c", "r", "e", "a", "t", "e", "(", "d", "b", ",", "\"", "d", "b", "1", "\"">>, <<"d", "b", "1">>, 0),
         Cmd("create_tbl_malformed", <<"c", "r", "e", "a", "t", "e", "(", "t", "b", "l", ",", "\"", "t", "\"", ",", "d", "b", "1">>, <<"t">>, 0),
         Cmd("create_tbl_malformed", <<"c", "r", "e", "a", "t", "e", "(", "t", "b", "l", ",", "\"", "t", "\"", ",", "d", "b", "1", ",">>, <<"t">>, 0),
         Cmd("create_col", <<"c", "r", "e", "a", "t", "e", "(", "c", "o", "l", ",", "\"", "c", "\"", ",", "d", "b", "1", ".", "t", ")">>, <<"c">>, 0),
         Cmd("create_col_malformed", <<"c", "r", "e", "a", "t", "e", "(", "c", "o", "l", ",", "\"", "c", "\"">>, <<"c">>, 0),
         Cmd("load", <<"l", "o", "a", "d", "(", "\"", "f", ".", "c", "s", "v", "\"", ")">>, <<"f", ".", "c", "s", "v">>, 0),
         Cmd("load_malformed", <<"l", "o", "a", "d", "(", "\"", "f", ".", "c", "s", "v", "\"">>, <<"f", ".", "c", "s", "v">>, 0),
         Cmd("relational_insert", <<"r", "e", "l", "a", "t", "i", "o", "n", "a", "l", "_", "i", "n", "s", "e", "r", "t", "(", "d", "b", "1", ".", "t", ",", "1", ")">>, <<>>, 0),
         Cmd("shutdown", <<"s", "h", "u", "t", "d", "o", "w", "n">>, <<>>, 0),
         Cmd("shutdown", <<"h", "=", "s", "h", "u", "t", "d", "o", "w", "n">>, <<>>, 0),
         Cmd("load_eq", <<"l", "o", "a", "d", "(", "\"", "a", "=", "b", "\"", ")">>, <<"a", "=", "b">>, 0),
         Cmd("create_db_spaced", <<" ", "c", "r", "e", "a", "t", "e", "(", "d", "b", ",", "\"", "d", " ", "2", "\"", ")", " ">>, <<"d", " ", "2">>, 0),
         Cmd("select", <<"h", "=", "s", "e", "l", "e", "c", "t", "(", "d", "b", "1", ".", "t", ".", "c", ",", "3", ",", "1", "0", ")">>, <<>>, 0),
         Cmd("comment", <<"-", "-", "c", "o", "m", "m", "e", "n", "t">>, <<>>, 0),
         Cmd("unknown", <<"b", "a", "d", "c", "o", "m", "m", "a", "n", "d", "(", "x", ",", "y", ")">>, <<>>, 0) }

\* handle_client, one turn of its loop: a message is received, compiled by
\* parse_command, executed by execute_DbOperator, and the result is sent
\* unless the receive buffer now begins with "shutdown", which leaves the
\* loop and closes the connection.
handle_client(c) ==
  /\ srv = "running"
  /\ ncmds < MaxCmds
  /\ ncmds' = ncmds + 1
  /\ LET p == parse_command(c.text) IN
     \E o \in (IF p.kind = "op"
                 THEN execute_DbOperator(p.op, catalog, current_db)
               ELSE IF p.kind = "null"
                 THEN execute_null(catalog, current_db)
                 ELSE execute_indeterminate(catalog, current_db)) :
       LET leave == ~o.fault /\ StartsWith(p.payload, K_shutdown) IN
       /\ catalog' = o.cat
       /\ current_db' = o.current_db
       /\ srv' = IF o.fault THEN "crashed"
                 ELSE IF leave THEN "closed_by_server"
                 ELSE "running"
       /\ log' = (IF log = <<>> THEN <<>> ELSE <<log[Len(log)]>>) \o <<
            [cmd |-> c, kind |-> p.kind, op |-> p.op, status |-> p.status,
             handle |-> p.handle, fault |-> o.fault,
             result |-> o.result, sent |-> IF o.fault \/ leave THEN 0 ELSE 1,
             frees |-> o.frees, calls |-> o.calls, logged |-> o.logged,
             cat_before |-> catalog, cat_after |-> o.cat,
             cdb_before |-> current_db, cdb_after |-> o.current_db] >>
  /\ UNCHANGED bqVars
  /\ UNCHANGED thVars

\* recv returns 0: the client has closed the connection
client_closes ==
  /\ srv = "running"
  /\ srv' = "closed_by_client"
  /\ UNCHANGED <<catalog, current_db, ncmds, log>>
  /\ UNCHANGED bqVars
  /\ UNCHANGED thVars

InitBQ ==
  /\ bq = NULL
  /\ bqr = NULL
  /\ queues = <<>>
  /\ heap = <<>>
  /\ ops = <<>>
  /\ drained = <<>>
  /\ bqStatus = "ok"
  /\ lastRet = 0
  /\ lastCall = "other"
  /\ pc = "idle"
  /\ tq = NULL
  /\ tn = NULL
  /\ tafter = FALSE

\* handle_client has initialised the three stores and waits for a message
InitSession ==
  /\ srv = "running"
  /\ catalog = EmptyCatalog
  /\ current_db = NULL
  /\ ncmds = 0
  /\ log = <<>>

Init == InitBQ /\ InitSession

NextBQ ==
  \/ \E allocQ, allocN \in BOOLEAN : create_batch_queue(allocQ, allocN)
  \/ \E r \in SelectRanges, hd \in Handles, allocOk \in BOOLEAN :
       Enqueue(r[1], r[2], hd, allocOk)
  \/ \E o \in DOMAIN ops : free_query_select(o)
  \/ show_batch_query
  \/ DrainLive

NextSwap ==
  \/ create_batch_queue(TRUE, TRUE)
  \/ \E r \in SelectRanges, hd \in Handles : WorkerBegin(r[1], r[2], hd)
  \/ WorkerL48
  \/ \E reload \in BOOLEAN : WorkerL52(reload)
  \/ \E reload \in BOOLEAN : WorkerL53(reload)
  \/ \E reload \in BOOLEAN : WorkerL54(reload)
  \/ Swap
  \/ DrainRefine

vars == <<bq, bqr, queues, heap, ops, drained, bqStatus, lastRet, lastCall, pc, tq, tn, tafter,
          srv, catalog, current_db, ncmds, log>>

NextSession ==
  \/ \E c \in Commands : handle_client(c)
  \/ client_closes

SpecBQ == Init /\ [][NextBQ /\ UNCHANGED ssVars]_vars

SpecSwap == Init /\ [][NextSwap /\ UNCHANGED ssVars]_vars

Spec == Init /\ [][NextSession]_vars

(***************************************************************************)
(* Claims about the batch queue.                                            *)
(***************************************************************************)

\* the real nodes of queue q as a walk from head->next finds them
QueueNodes(q) == Walk(heap, heap[queues[q].head].next)

RangeLowOf(n) == ops[heap[n].query].pre_range

\* C1: after any sequence of successful enqueues on a created queue, the real
\* nodes reachable from head.next are in non-decreasing order of range_low.
C1_EnqueueKeepsRangeLowOrder ==
  (bq # NULL /\ ValidQueue(bq) /\ queues[bq].head # queues[bq].tail) =>
    LET w == QueueNodes(bq) IN
    \A i, j \in DOMAIN w :
      (i < j /\ w[i] # WILD /\ w[j] # WILD) => RangeLowOf(w[i]) <= RangeLowOf(w[j])

\* node n belongs to queue q: a walk from q's head finds it, or it is q's tail
InQueue(q, n) ==
  /\ q # NULL
  /\ ValidQueue(q)
  /\ n \in Range(QueueNodes(q)) \/ queues[q].tail = n

\* C2: an enqueue that runs concurrently with a coalescing pass (swap, then
\* drain of the detached queue) leaves its node in exactly one of the live
\* and the detached queue, and never puts it into the detached queue after
\* the pass has captured it.
C2_EnqueueLandsInExactlyOneQueue ==
  (pc = "done" /\ bqStatus = "ok") =>
    LET inLive == InQueue(bq, tn)
        inDetached == InQueue(bqr, tn) \/ \E i \in DOMAIN drained : drained[i].node = tn
    IN /\ inLive # inDetached
       /\ tafter => ~inDetached

\* C3: every node holds a copy of its operator's handle equal to it, and
\* every node a drain produces carries range_low, range_high and handle
\* exactly as they were at enqueue time, also when the operator has been
\* freed in between; a queue that has just been drained is empty.
C3_RoundTripPreservesSelect ==
  /\ \A n \in RealNodes :
       heap[n].share_query_handle = ops[heap[n].query].handle
  /\ \A i \in DOMAIN drained :
       LET o == ops[heap[drained[i].node].query] IN
       /\ drained[i].pre_range = o.pre_range
       /\ drained[i].post_range = o.post_range
       /\ drained[i].handle = o.handle

\* C4: on a created queue that has only been enqueued into, length equals the
\* number of real nodes reachable from head.next (0 right after creation),
\* head is still the sentinel, and tail is the last node reachable from head.
C4_LengthCountsReachableNodes ==
  (bq # NULL /\ ValidQueue(bq) /\ drained = <<>> /\ bqStatus = "ok") =>
    LET w == QueueNodes(bq)
        all == <<queues[bq].head>> \o w
    IN /\ WILD \notin Range(w)
       /\ Len(w) = queues[bq].length
       /\ queues[bq].head \notin RealNodes
       /\ all[Len(all)] = queues[bq].tail

(***************************************************************************)
(* Claims about the compiler, the dispatcher and the session loop.          *)
(***************************************************************************)

\* C5: every command text the session loop receives is answered by exactly
\* one response, and processing it neither crashes the server nor makes the
\* server drop the connection.
C5_EveryCommandGetsOneResponse ==
  /\ \A i \in DOMAIN log : log[i].sent = 1 /\ ~log[i].fault
  /\ srv \in {"running", "closed_by_client"}

\* C6: a command beginning with -- compiles to no operator with status
\* accepted, and nothing is executed for it: no dispatch outcome, no catalog
\* call, no catalog or queue change, and the session loop goes on.
C6_CommentExecutesNothing ==
  \A i \in DOMAIN log :
    log[i].cmd.form = "comment" =>
      /\ log[i].kind = "null"
      /\ log[i].status = "OK_DONE"
      /\ ~log[i].fault
      /\ log[i].calls = <<>>
      /\ log[i].frees = 0
      /\ log[i].result = ""
      /\ log[i].cat_after = log[i].cat_before
      /\ bq = NULL /\ queues = <<>>
      /\ i = Len(log) => srv \in {"running", "closed_by_client"}

\* C7: dispatching an Error operator returns the message the operator
\* carries, verbatim, and makes no catalog call.
C7_ErrorDispatchReturnsCarriedMessage ==
  \A i \in DOMAIN log :
    (log[i].kind = "op" /\ log[i].op.type = "ERROR_CMD") =>
      /\ log[i].result = log[i].op.err_info
      /\ log[i].calls = <<>>

\* C8: create(tbl,"T",D,N) with N < 1 or N not a number compiles to an Error
\* operator, never to CreateTable, and its dispatch leaves the catalog as it
\* was; every CreateTable operator has column_count >= 1 equal to the N the
\* command wrote.
C8_NonPositiveColumnCountRejected ==
  \A i \in DOMAIN log :
    /\ (\/ log[i].cmd.form = "create_tbl" /\ log[i].cmd.n < 1
        \/ log[i].cmd.form = "create_tbl_nonnumeric") =>
         /\ log[i].kind = "op"
         /\ log[i].op.type = "ERROR_CMD"
         /\ log[i].cat_after = log[i].cat_before
    /\ (log[i].kind = "op" /\ log[i].op.type = "CREATE_TBL") =>
         /\ log[i].cmd.n >= 1
         /\ log[i].op.col_count = <<0, 0, log[i].cmd.n \div Limb, log[i].cmd.n % Limb>>

MalformedForms ==
  {"create_db_malformed", "create_tbl_malformed", "create_col_malformed",
   "load_malformed", "relational_insert", "unknown"}

\* C9: for every malformed command text parse_command returns a well-formed
\* Error operator that carries a message; it never faults and never returns
\* an undefined or partial operator.
C9_MalformedCompilesToErrorOperator ==
  \A i \in DOMAIN log :
    log[i].cmd.form \in MalformedForms =>
      /\ log[i].kind = "op"
      /\ log[i].op.type = "ERROR_CMD"
      /\ log[i].op.err_info # ""

LoopGoesOn == srv \in {"running", "closed_by_client"}

\* the names of the tables the catalog holds
TableNames(cat) == { cat.tbls[i].name : i \in DOMAIN cat.tbls }

\* C11: on live catalog stores, dispatching a CreateTable operator whose
\* db_name names no database answers "create table failed.\n", and
\* dispatching a CreateColumn operator whose table name names no table
\* answers "create column failed.\n"; either leaves the catalog unchanged
\* and the server running for the next command.
C11_MissingParentFailsCleanly ==
  \A i \in DOMAIN log :
    (log[i].kind = "op" /\ log[i].cat_before.state = "ready") =>
      /\ (/\ log[i].op.type = "CREATE_TBL"
          /\ log[i].op.db_name \notin Range(log[i].cat_before.dbs)) =>
           /\ ~log[i].fault
           /\ log[i].result = RespCreateTblFailed
           /\ log[i].sent = 1
           /\ log[i].cat_after = log[i].cat_before
           /\ i = Len(log) => LoopGoesOn
      /\ (/\ log[i].op.type = "CREATE_COL"
          /\ log[i].op.tbl_name \notin TableNames(log[i].cat_before)) =>
           /\ ~log[i].fault
           /\ log[i].result = RespCreateColFailed
           /\ log[i].sent = 1
           /\ log[i].cat_after = log[i].cat_before
           /\ i = Len(log) => LoopGoesOn

\* a CreateTable for an absent database was refused, and after it a
\* CreateColumn for an absent table was refused too
C11_Witness ==
  /\ Len(log) = 2
  /\ log[1].kind = "op" /\ log[1].op.type = "CREATE_TBL"
  /\ log[1].op.db_name \notin Range(log[1].cat_before.dbs)
  /\ log[1].result = RespCreateTblFailed
  /\ log[2].kind = "op" /\ log[2].op.type = "CREATE_COL"
  /\ log[2].op.tbl_name \notin TableNames(log[2].cat_before)
  /\ log[2].result = RespCreateColFailed
  /\ log[2].cat_after = log[1].cat_before
  /\ srv = "running"

\* C12: on live catalog stores, dispatching Shutdown first calls the
\* persistence of the catalog and only then frees the three stores, in that
\* order; a failed persistence is logged and the stores are freed all the
\* same; the dispatch always returns "persist all the data and shutdown the
\* server.\n".
C12_ShutdownPersistsThenTearsDown ==
  \A i \in DOMAIN log :
    (/\ log[i].kind = "op"
     /\ log[i].op.type = "SHUTDOWN"
     /\ log[i].cat_before.state = "ready") =>
      /\ ~log[i].fault
      /\ log[i].calls =
           <<"persist_data_csv", "free_db_store", "free_tbl_store", "free_col_store">>
      /\ log[i].cat_after.state = "torn_down"
      /\ log[i].result = RespShutdown

\* a Shutdown whose persistence failed: logged, and the stores are torn down
C12_Witness ==
  \E i \in DOMAIN log :
    /\ log[i].kind = "op"
    /\ log[i].op.type = "SHUTDOWN"
    /\ log[i].cat_before.state = "ready"
    /\ log[i].cat_before.dbs # <<>>
    /\ log[i].logged
    /\ log[i].cat_after.state = "torn_down"
    /\ log[i].result = RespShutdown

\* C13: dispatching a Select does not run a scan: the operator is wrapped
\* into a node and enqueued into the live batch queue, whose length grows by
\* one, and the response acknowledges that the query was queued (it is not
\* an error response).
C13_SelectIsEnqueuedAndAcknowledged ==
  \A i \in DOMAIN log :
    log[i].cmd.form = "select" =>
      /\ ~log[i].fault
      /\ log[i].sent = 1
      /\ log[i].result \notin {ErrCommand, RespUnsupported}
      /\ bq # NULL
      /\ ValidQueue(bq)
      /\ queues[bq].length >= 1

(***************************************************************************)
(* Claims about the batch queue's error handling and its read operations.   *)
(***************************************************************************)

\* a step of Enqueue: the only step that allocates a Select operator
EnqueueStep == DOMAIN ops' # DOMAIN ops

\* C14: add_batch_queue called with no queue (bq NULL) or no node (NULL)
\* returns 1 and leaves every queue's head, tail, length and node chain as
\* they were; called with a queue and a node it returns 0 and the node is
\* in the queue afterwards, as its tail.
C14_EnqueueErrorLeavesQueueUnchanged ==
  [][ (EnqueueStep /\ (bq = NULL \/ ValidQueue(bq))) =>
        IF bq = NULL \/ DOMAIN heap' = DOMAIN heap
          THEN /\ lastRet' = 1
               /\ queues' = queues
               /\ \A n \in DOMAIN heap : heap'[n] = heap[n]
          ELSE LET node == NewId(heap) IN
               /\ lastRet' = 0
               /\ queues'[bq].tail = node
               /\ queues'[bq].length = queues[bq].length + 1
               /\ queues'[bq].head = queues[bq].head
               /\ node \in Range(Walk(heap', heap'[queues'[bq].head].next))
    ]_vars

\* an add with no node was refused (1) on a queue that holds one node, and
\* the queue still holds exactly that node
C14_Witness ==
  /\ lastRet = 1
  /\ bq # NULL
  /\ ValidQueue(bq)
  /\ Cardinality(DOMAIN ops) = 2
  /\ queues[bq].length = 1
  /\ queues[bq].tail # queues[bq].head
  /\ QueueNodes(bq) = <<queues[bq].tail>>

\* every operator a queued node points to is still allocated
QueuedOperatorsLive ==
  \A n \in RealNodes : ops[heap[n].query].live

\* C15: is_bq_empty answers "empty" (0, the value show_batch_query tests
\* for) exactly when there is no queue or head == tail, which is exactly
\* when the queue holds no real node; and a show_batch_query call writes
\* nothing: bq, every queue's head, tail and length, every node and the
\* answer of is_bq_empty are the same after it as before.
C15_PeekIsReadOnly ==
  [][ (bq = NULL \/ ValidQueue(bq)) =>
        /\ is_bq_empty \in {{0}, {1}}
        /\ (is_bq_empty = {0}) <=>
             (IF bq = NULL THEN TRUE ELSE queues[bq].head = queues[bq].tail)
        /\ (bq # NULL) => ((is_bq_empty = {0}) <=> (queues[bq].length = 0))
        /\ (lastCall' = "show_batch_query" /\ QueuedOperatorsLive) =>
             /\ bqStatus' = "ok"
             /\ bq' = bq
             /\ queues' = queues
             /\ heap' = heap
             /\ is_bq_empty' = is_bq_empty
    ]_vars

\* show_batch_query has just run on a queue of two nodes, which is still
\* a queue of two nodes and still reported non-empty
C15_Witness ==
  /\ lastCall = "show_batch_query"
  /\ bqStatus = "ok"
  /\ bq # NULL
  /\ ValidQueue(bq)
  /\ QueuedOperatorsLive
  /\ queues[bq].length = 2
  /\ Len(QueueNodes(bq)) = 2
  /\ is_bq_empty = {1}

(***************************************************************************)
(* Claims about handles, keywords, whitespace and the operator's lifetime.  *)
(***************************************************************************)

\* the handle prefix the commands of the model are written with
HandlePrefix == <<"h", "=">>

\* C16: a command with = before its keyword (h=...) is compiled as the text
\* after the = with the text before it as the handle; a command with no =
\* before its keyword has no handle and is compiled whole, so load("a=b"),
\* whose only = is inside the path, compiles to a Load of the path a=b.
C16_HandleSplitsOnlyBeforeKeyword ==
  \A i \in DOMAIN log :
    log[i].kind = "op" =>
      IF StartsWith(log[i].cmd.text, HandlePrefix)
        THEN /\ log[i].handle = Str(<<"h">>)
             /\ log[i].op =
                  parse_command(SubSeq(log[i].cmd.text, 3, Len(log[i].cmd.text))).op
        ELSE /\ log[i].handle = NullStr
             /\ log[i].cmd.form = "load_eq" =>
                  /\ log[i].op.type = "LOAD"
                  /\ log[i].op.data_path = log[i].cmd.name

\* the keywords parse_command matches, in the order it tries them
Keywords == <<K_create_db, K_create_tbl, K_create_col, K_load, K_insert, K_shutdown>>

\* s without the white space at its two ends
StripEnds(s) ==
  LET idx == { i \in DOMAIN s : ~isspace(s[i]) } IN
  IF idx = {} THEN <<>>
  ELSE SubSeq(s, CHOOSE i \in idx : \A j \in idx : i <= j,
                 CHOOSE i \in idx : \A j \in idx : i >= j)

\* the command without its handle prefix and the white space around it
CommandPart(text) ==
  StripEnds(IF StartsWith(text, HandlePrefix) THEN SubSeq(text, 3, Len(text)) ELSE text)

\* the position in Keywords of the first keyword the text begins with, 0 for none
MatchedKeyword(text) ==
  IF \E k \in DOMAIN Keywords : StartsWith(text, Keywords[k])
    THEN CHOOSE k \in DOMAIN Keywords :
           /\ StartsWith(text, Keywords[k])
           /\ \A j \in 1..(k - 1) : ~StartsWith(text, Keywords[j])
    ELSE 0

\* the operator types and error messages the parser of each keyword produces
KeywordResults ==
  <<{"CREATE_DB", ErrCreateDb}, {"CREATE_TBL", ErrCreateTbl, ErrColumnNumber},
    {"CREATE_COL", ErrCreateCol}, {"LOAD", ErrLoad}, {}, {"SHUTDOWN"}>>

C18_InnerWhitespaceIsKept ==
  \A i \in DOMAIN log :
    log[i].cmd.form = "create_db_spaced" =>
      /\ log[i].kind = "op"
      /\ log[i].op.type = "CREATE_DB"
      /\ log[i].op.db_name = log[i].cmd.name

\* C19: every operator parse_command creates is released exactly once by
\* its dispatch, whatever its type (CreateDatabase, CreateTable,
\* CreateColumn, Load, Shutdown, Error): never twice and never not at all.
C19_OperatorReleasedExactlyOnce ==
  \A i \in DOMAIN log :
    (log[i].kind = "op" /\ ~log[i].fault) => log[i].frees = 1

\* C20: once a Shutdown operator has been dispatched the session loop has
\* stopped, whatever text compiled to it (shutdown, h=shutdown), and no
\* command is compiled or dispatched on catalog stores that have been torn
\* down.
C20_NothingRunsAfterShutdown ==
  \A i \in DOMAIN log :
    /\ log[i].cat_before.state = "ready"
    /\ (/\ i = Len(log)
        /\ log[i].kind = "op"
        /\ log[i].op.type = "SHUTDOWN"
        /\ ~log[i].fault) => srv = "closed_by_server"

(***************************************************************************)
(* Claims about failed creations.                                           *)
(***************************************************************************)

\* C21: a create_batch_queue that fails because an allocation fails leaves
\* the global queue handle absent (NULL), so bq never designates a released
\* queue and no later operation touches one.
C21_FailedCreateLeavesHandleAbsent ==
  bq # NULL => ValidQueue(bq)

\* C22: a CreateDatabase dispatch that fails leaves the catalog and the
\* current-database reference as they were before the command.
C22_FailedCreateDbKeepsCurrentDb ==
  \A i \in DOMAIN log :
    (/\ log[i].kind = "op"
     /\ log[i].op.type = "CREATE_DB"
     /\ ~log[i].fault
     /\ log[i].result = RespCreateDbFailed) =>
      /\ log[i].cat_after = log[i].cat_before
      /\ log[i].cdb_after = log[i].cdb_before

====
